---- MODULE Spec2Model ----
(***************************************************************************)
(* IndicatorStore (src/src/store/IndicatorStore.ts): the per-pane table of *)
(* indicator instances, the override engine, and the asynchronous          *)
(* recomputations launched by addInstance, calcInstance and override.      *)
(*                                                                         *)
(* A JavaScript Map is modelled as a sequence of [k, v] entries in         *)
(* insertion order.  An instance object is a record carrying its object    *)
(* identity `id`; a recomputation in flight refers to its instance by that *)
(* identity, as the closure of calcIndicator does.                         *)
(***************************************************************************)
EXTENDS Integers, Sequences, FiniteSets, TLC

\* ------------------------------------------------------------- bounds
\* Recomputations in flight at one time, in Spec and in SpecCalc.
MaxTasks == 1
MaxCalcTasks == 2
\* Instance objects alive at one time (held by the table or by a
\* recomputation in flight).
MaxInsts == 3

\* ------------------------------------------------------------- inputs
Undefined == "undefined"
Null == "null"

Panes == {"pane1", "pane2"}
\* Names callers use: two registered templates and one that is not.
Names == {"MA", "VOL", "XX"}

\* The registered factories (_templates after registration).
templates == {"MA", "VOL"}

\* The chart's data list (this._chartStore.getDataList()), which no
\* operation of the store changes.
getDataList == <<"k1", "k2">>

\* ------------------------------------------------------------- Map
MapHas(m, key) == \E i \in 1..Len(m) : m[i].k = key

MapGet(m, key) == m[CHOOSE i \in 1..Len(m) : m[i].k = key].v

MapSet(m, key, val) ==
  IF MapHas(m, key)
  THEN [i \in 1..Len(m) |-> IF m[i].k = key THEN [k |-> key, v |-> val] ELSE m[i]]
  ELSE Append(m, [k |-> key, v |-> val])

MapDelete(m, key) == SelectSeq(m, LAMBDA e : e.k # key)

MapClear(m) == << >>

MapKeys(m) == {m[i].k : i \in 1..Len(m)}

\* ------------------------------------------------------------- instance
\* A fresh instance as the factory of `name` builds it (new Template()).
NewTemplate(name, id) ==
  [ id |-> id,
    name |-> name,
    shortName |-> name,
    series |-> IF name = "MA" THEN "price" ELSE IF name = "VOL" THEN "volume" ELSE "normal",
    calcParams |-> <<5>>,
    precision |-> 4,
    plots |-> "plots0",
    minValue |-> << >>,
    maxValue |-> << >>,
    shouldOhlc |-> FALSE,
    shouldFormatBigNumber |-> FALSE,
    styles |-> Null,
    extendData |-> "ext0",
    regeneratePlots |-> Null,
    createToolTipDataSource |-> Null,
    draw |-> Null,
    calc |-> "calc0",
    result |-> << >> ]

\* A conditional setter: stores the value and reports true iff it differs
\* from the stored one.
SetField(inst, f, val) ==
  IF inst[f] # val
  THEN [inst |-> [inst EXCEPT ![f] = val], ok |-> TRUE]
  ELSE [inst |-> inst, ok |-> FALSE]

setShortName(inst, val) == SetField(inst, "shortName", val)
setSeries(inst, val) == SetField(inst, "series", val)
setCalcParams(inst, val) == SetField(inst, "calcParams", val)
setPlots(inst, val) == SetField(inst, "plots", val)
setMinValue(inst, val) == SetField(inst, "minValue", val)
setMaxValue(inst, val) == SetField(inst, "maxValue", val)
setPrecision(inst, val) == SetField(inst, "precision", val)
setShouldOhlc(inst, val) == SetField(inst, "shouldOhlc", val)
setShouldFormatBigNumber(inst, val) == SetField(inst, "shouldFormatBigNumber", val)
setStyles(inst, val) == SetField(inst, "styles", val)
setExtendData(inst, val) == SetField(inst, "extendData", val)
setRegeneratePlots(inst, val) == SetField(inst, "regeneratePlots", val)
setCreateToolTipDataSource(inst, val) == SetField(inst, "createToolTipDataSource", val)
setDraw(inst, val) == SetField(inst, "draw", val)

\* A patch (Omit<Indicator, 'result'>) is a function from the fields it
\* carries to their values: a field outside its domain is `undefined`.
Has(patch, f) == f \in DOMAIN patch

\* The one element of a singleton set.
Only(S) == CHOOSE x \in S : TRUE

\* `if (field !== undefined && instance.setX(field)) overrideSuccess = true`:
\* the state of _overrideInstance after the setter reported r.
Attempt(st, r) ==
  [ inst |-> r.inst,
    overrideSuccess |-> st.overrideSuccess \/ r.ok,
    calcParamsSuccess |-> st.calcParamsSuccess ]

\* lines 45-48: the calcParams setter's report also sets calcParamsSuccess.
AttemptCalcParams(st, r) ==
  [ inst |-> r.inst,
    overrideSuccess |-> st.overrideSuccess \/ r.ok,
    calcParamsSuccess |-> st.calcParamsSuccess \/ r.ok ]

\* Mutant: the calc swap goes through change detection and counts toward both
\* flags.
AssignCalcReported(st, calc) ==
  [ inst |-> [st.inst EXCEPT !.calc = calc],
    overrideSuccess |-> st.overrideSuccess \/ st.inst.calc # calc,
    calcParamsSuccess |-> st.calcParamsSuccess \/ st.inst.calc # calc ]

\* lines 82-84: `instance.calc = calc`, with no setter and no report.
AssignCalc(st, calc) == [st EXCEPT !.inst.calc = calc]

\* _overrideInstance: every field in the order of the code; returns the
\* instance as mutated and [overrideSuccess, calcParamsSuccess].
overrideInstance(instance, indicator) ==
  LET s0 == [inst |-> instance, overrideSuccess |-> FALSE, calcParamsSuccess |-> FALSE]
      s1 == Only({IF Has(indicator, "shortName")
                  THEN Attempt(x, setShortName(x.inst, indicator.shortName))
                  ELSE x : x \in {s0}})
      s2 == Only({IF Has(indicator, "series")
                  THEN Attempt(x, setSeries(x.inst, indicator.series))
                  ELSE x : x \in {s1}})
      s3 == Only({IF Has(indicator, "calcParams")
                  THEN AttemptCalcParams(x, setCalcParams(x.inst, indicator.calcParams))
                  ELSE x : x \in {s2}})
      s4 == Only({IF Has(indicator, "plots")
                  THEN Attempt(x, setPlots(x.inst, indicator.plots))
                  ELSE x : x \in {s3}})
      s5 == Only({IF Has(indicator, "minValue")
                  THEN Attempt(x, setMinValue(x.inst, indicator.minValue))
                  ELSE x : x \in {s4}})
      \* line 55: the maxValue of the patch goes through setMinValue
      s6 == Only({IF Has(indicator, "maxValue")
                  THEN Attempt(x, setMinValue(x.inst, indicator.maxValue))
                  ELSE x : x \in {s5}})
      s7 == Only({IF Has(indicator, "precision")
                  THEN Attempt(x, setPrecision(x.inst, indicator.precision))
                  ELSE x : x \in {s6}})
      s8 == Only({IF Has(indicator, "shouldOhlc")
                  THEN Attempt(x, setShouldOhlc(x.inst, indicator.shouldOhlc))
                  ELSE x : x \in {s7}})
      s9 == Only({IF Has(indicator, "shouldFormatBigNumber")
                  THEN Attempt(x, setShouldFormatBigNumber(x.inst,
                                                          indicator.shouldFormatBigNumber))
                  ELSE x : x \in {s8}})
      s10 == Only({IF Has(indicator, "styles") /\ indicator.styles # Null
                   THEN Attempt(x, setStyles(x.inst, indicator.styles))
                   ELSE x : x \in {s9}})
      s11 == Only({IF Has(indicator, "extendData")
                   THEN Attempt(x, setExtendData(x.inst, indicator.extendData))
                   ELSE x : x \in {s10}})
      s12 == Only({IF Has(indicator, "regeneratePlots") /\ indicator.regeneratePlots # Null
                   THEN Attempt(x, setRegeneratePlots(x.inst, indicator.regeneratePlots))
                   ELSE x : x \in {s11}})
      s13 == Only({IF Has(indicator, "createToolTipDataSource")
                      /\ indicator.createToolTipDataSource # Null
                   THEN Attempt(x, setCreateToolTipDataSource(x.inst,
                                                             indicator.createToolTipDataSource))
                   ELSE x : x \in {s12}})
      s14 == Only({IF Has(indicator, "draw") /\ indicator.draw # Null
                   THEN Attempt(x, setDraw(x.inst, indicator.draw))
                   ELSE x : x \in {s13}})
  IN Only({IF Has(indicator, "calc")
           THEN AssignCalc(x, indicator.calc)
           ELSE x : x \in {s14}})

\* ------------------------------------------------------------- state
VARIABLES
  instances,  \* _instances: Map<paneId, Map<name, instance>>
  tasks,      \* the recomputations of the calls still awaiting, in launch order
  last        \* the last event: a call (with its outcome) or an awaited return

vars == <<instances, tasks, last>>

\* ------------------------------------------------------------- recomputation
\* What calc produces over the data list: one entry per data point, decided
\* by the calc capability and the calcParams it ran with.
Calc(calc, calcParams, dataList) ==
  [i \in 1..Len(dataList) |->
     [point |-> dataList[i], calc |-> calc, calcParams |-> calcParams]]

\* The call a new batch of recomputations belongs to: the least number no
\* call still awaiting has.
NewCall == CHOOSE c \in 1..(Len(tasks) + 1) :
             /\ \A i \in 1..Len(tasks) : tasks[i].call # c
             /\ \A d \in 1..(c - 1) : \E i \in 1..Len(tasks) : tasks[i].call = d

\* instance.calcIndicator(dataList) at its launch: the promise in flight, with
\* the capability and the calcParams in effect now, and the result it will
\* write if it settles with success.
calcIndicator(instance, dataList, op, call) ==
  [ inst |-> instance.id, calcParams |-> instance.calcParams,
    result |-> Calc(instance.calc, instance.calcParams, dataList),
    status |-> "pending", op |-> op, call |-> call ]

\* Mutant: a settlement computed from calcParams the instance no longer has
\* is dropped.
WriteResultIfCurrent(tbl, id, result) ==
  [i \in 1..Len(tbl) |->
     [k |-> tbl[i].k,
      v |-> [j \in 1..Len(tbl[i].v) |->
               IF /\ tbl[i].v[j].v.id = id
                  /\ \A n \in 1..Len(result) : result[n].calcParams = tbl[i].v[j].v.calcParams
               THEN [k |-> tbl[i].v[j].k, v |-> [tbl[i].v[j].v EXCEPT !.result = result]]
               ELSE tbl[i].v[j]]]]

\* Mutant: the settlement writes the result on every instance of the table,
\* whichever object the recomputation was launched for.
WriteResultAll(tbl, id, result) ==
  [i \in 1..Len(tbl) |->
     [k |-> tbl[i].k,
      v |-> [j \in 1..Len(tbl[i].v) |->
               [k |-> tbl[i].v[j].k, v |-> [tbl[i].v[j].v EXCEPT !.result = result]]]]]

\* The settlement's write: `this.result = result` on the instance object the
\* recomputation was launched for, wherever (if anywhere) the table holds it.
WriteResult(tbl, id, result) ==
  [i \in 1..Len(tbl) |->
     [k |-> tbl[i].k,
      v |-> [j \in 1..Len(tbl[i].v) |->
               IF tbl[i].v[j].v.id = id
               THEN [k |-> tbl[i].v[j].k, v |-> [tbl[i].v[j].v EXCEPT !.result = result]]
               ELSE tbl[i].v[j]]]]

\* ------------------------------------------------------------- queries
hasInstances(paneId) == MapHas(instances, paneId)

getInstances(paneId) == IF MapHas(instances, paneId) THEN MapGet(instances, paneId) ELSE << >>

\* The names a pane holds (none for an absent pane).
PaneNames(tbl, paneId) == IF MapHas(tbl, paneId) THEN MapKeys(MapGet(tbl, paneId)) ELSE {}

\* Every instance the table holds.
Held(tbl) == UNION {{tbl[i].v[j].v : j \in 1..Len(tbl[i].v)} : i \in 1..Len(tbl)}

\* The identity of the next instance object: one that neither the table nor
\* a recomputation in flight refers to.
FreeIds == (1..MaxInsts) \ ({x.id : x \in Held(instances)}
                            \cup {tasks[i].inst : i \in 1..Len(tasks)})

NextId == CHOOSE id \in FreeIds : \A other \in FreeIds : id <= other

\* How the pane stands to `name` before a call.
Pre(paneId, name) ==
  IF ~MapHas(instances, paneId) THEN "absent"
  ELSE IF Len(MapGet(instances, paneId)) = 0 THEN "empty"
  ELSE IF name \in PaneNames(instances, paneId) THEN "has"
  ELSE "other"

\* What `last` keeps of a call: the operation, how the pane stood to the name
\* before it, the fields of the patch, and the outcome.
Call(op, pre, fields, isStack, out) ==
  [ev |-> "call", op |-> op, pre |-> pre, fields |-> fields, isStack |-> isStack,
   out |-> out, flags |-> << >>]

\* What `last` keeps of the return of an awaited call: its success flags.
Return(op, flags) ==
  [ev |-> "return", op |-> op, pre |-> "none", fields |-> {}, isStack |-> FALSE,
   out |-> "settled", flags |-> flags]

Fields(indicator) == DOMAIN indicator \ {"name"}

Init ==
  /\ instances = << >>
  /\ tasks = << >>
  /\ last = Call("none", "none", {}, FALSE, "none")

\* ------------------------------------------------------------- addInstance
\* paneInstances?.has(name): undefined for an absent pane, else a boolean.
OptionalHas(paneId, name) ==
  IF ~MapHas(instances, paneId) THEN Undefined
  ELSE IF MapHas(MapGet(instances, paneId), name) THEN "true" ELSE "false"

\* Mutant: the guard taken when the pane does not hold the name.
AddGuardInverted(paneId, name) == OptionalHas(paneId, name) = "false"

\* Mutant: the guard taken only when the pane holds the name.
AddGuardIntended(paneId, name) == OptionalHas(paneId, name) = "true"

\* line 98: if (paneInstances?.has(name) !== undefined) return false
AddGuard(paneId, name) == OptionalHas(paneId, name) # Undefined

AddInstance(paneId, indicator, isStack) ==
  LET name == indicator.name
      \* lines 101-104
      tbl1 == IF ~MapHas(instances, paneId) THEN MapSet(instances, paneId, << >>)
              ELSE instances
      \* lines 106-107
      instance == overrideInstance(NewTemplate(name, NextId), indicator).inst
      pane1 == MapGet(tbl1, paneId)
      \* lines 108-111
      pane2 == IF ~isStack THEN MapClear(pane1) ELSE pane1
      pane3 == MapSet(pane2, name, instance)
      pre == Pre(paneId, name)
  IN IF AddGuard(paneId, name)
     THEN /\ last' = Call("addInstance", pre, Fields(indicator), isStack, "false")
          /\ UNCHANGED <<instances, tasks>>
     ELSE IF name \notin templates
     THEN \* `new Template()` on an undefined constructor throws
          /\ instances' = tbl1
          /\ last' = Call("addInstance", pre, Fields(indicator), isStack, "throw")
          /\ UNCHANGED tasks
     ELSE /\ FreeIds # {}
          /\ instances' = MapSet(tbl1, paneId, pane3)
          /\ tasks' = Append(tasks, calcIndicator(instance, getDataList, "addInstance",
                                                  NewCall))
          /\ last' = Call("addInstance", pre, Fields(indicator), isStack, "pending")

\* ------------------------------------------------------------- removeInstance
\* Mutant: the emptied pane entry is kept.
DeleteNever(tbl, paneId) == tbl

\* lines 143-145: a pane left empty is deleted from the table.
DeleteIfEmpty(tbl, paneId) ==
  IF Len(MapGet(tbl, paneId)) = 0 THEN MapDelete(tbl, paneId) ELSE tbl

RemoveInstance(paneId, name) ==
  LET paneInstances == MapGet(instances, paneId)
      byName == name # Undefined
      removed == IF byName THEN MapHas(paneInstances, name) ELSE TRUE
      pane1 == IF byName THEN MapDelete(paneInstances, name) ELSE MapClear(paneInstances)
      fields == IF byName THEN {"name"} ELSE {}
  IN IF MapHas(instances, paneId)
     THEN /\ instances' = DeleteIfEmpty(MapSet(instances, paneId, pane1), paneId)
          /\ last' = Call("removeInstance", Pre(paneId, name), fields, FALSE,
                          IF removed THEN "true" ELSE "false")
          /\ UNCHANGED tasks
     ELSE /\ last' = Call("removeInstance", Pre(paneId, name), fields, FALSE, "false")
          /\ UNCHANGED <<instances, tasks>>

\* ------------------------------------------------------------- calcInstance
PaneValues(m) == [j \in 1..Len(m) |-> m[j].v]

\* lines 182-186: every instance of every pane, in iteration order.
RECURSIVE AllFrom(_, _)
AllFrom(tbl, i) ==
  IF i > Len(tbl) THEN << >> ELSE PaneValues(tbl[i].v) \o AllFrom(tbl, i + 1)

\* lines 174-179: the instance `name` of every pane that has it.
RECURSIVE NamedFrom(_, _, _)
NamedFrom(tbl, name, i) ==
  IF i > Len(tbl) THEN << >>
  ELSE (IF MapHas(tbl[i].v, name) THEN <<MapGet(tbl[i].v, name)>> ELSE << >>)
       \o NamedFrom(tbl, name, i + 1)

\* Mutant: the pane argument is ignored when a name is given.
SelectedIgnoringPane(name, paneId) ==
  IF name # Undefined THEN NamedFrom(instances, name, 1) ELSE AllFrom(instances, 1)

\* The instances calcInstance(name, paneId) pushes a task for, in order.
Selected(name, paneId) ==
  IF name # Undefined
  THEN IF paneId # Undefined
       THEN IF MapHas(instances, paneId) /\ MapHas(MapGet(instances, paneId), name)
            THEN <<MapGet(MapGet(instances, paneId), name)>>
            ELSE << >>
       ELSE NamedFrom(instances, name, 1)
  ELSE AllFrom(instances, 1)

\* The tasks a batch call pushes for the instances `sel`, in order.
Launch(sel, op) ==
  [i \in 1..Len(sel) |-> calcIndicator(sel[i], getDataList, op, NewCall)]

CalcInstance(name, paneId) ==
  LET sel == Selected(name, paneId)
  IN /\ tasks' = tasks \o Launch(sel, "calcInstance")
     /\ last' = Call("calcInstance", "none",
                     (IF name # Undefined THEN {"name"} ELSE {})
                       \cup (IF paneId # Undefined THEN {"paneId"} ELSE {}),
                     FALSE,
                     IF Len(sel) = 0 THEN "empty" ELSE "pending")
     /\ UNCHANGED instances

\* ------------------------------------------------------------- setSeriesPrecision
\* Mutant: the price precision is set whatever the classification is.
SeriesPrecisionAll(instance, precision) == setPrecision(instance, precision.price).inst

\* lines 215-220 on one instance.
SeriesPrecision(instance, precision) ==
  LET a == IF instance.series = "price"
           THEN setPrecision(instance, precision.price).inst ELSE instance
  IN IF a.series = "volume" THEN setPrecision(a, precision.volume).inst ELSE a

SetSeriesPrecision(precision) ==
  /\ instances' =
       [i \in 1..Len(instances) |->
          [k |-> instances[i].k,
           v |-> [j \in 1..Len(instances[i].v) |->
                    [k |-> instances[i].v[j].k,
                     v |-> SeriesPrecision(instances[i].v[j].v, precision)]]]]
  /\ last' = Call("setSeriesPrecision", "none", {}, FALSE, "void")
  /\ UNCHANGED tasks

\* ------------------------------------------------------------- override
\* lines 233-240: the panes override looks into.
InScope(pane, paneId) == paneId = Undefined \/ pane = paneId

\* Mutant: the recomputation is pushed on any change (overrideResult[0]).
OverrideLaunchesOnAnyChange(overrideResult) == overrideResult.overrideSuccess

\* line 246: if (overrideResult[1]) push a recomputation
OverrideLaunches(overrideResult) == overrideResult.calcParamsSuccess

\* The instances override pushes a task for (as mutated), in iteration order.
RECURSIVE OverrideFrom(_, _, _, _)
OverrideFrom(tbl, indicator, paneId, i) ==
  IF i > Len(tbl) THEN << >>
  ELSE (IF InScope(tbl[i].k, paneId) /\ MapHas(tbl[i].v, indicator.name)
        THEN LET r == overrideInstance(MapGet(tbl[i].v, indicator.name), indicator)
             IN IF OverrideLaunches(r) THEN <<r.inst>> ELSE << >>
        ELSE << >>)
       \o OverrideFrom(tbl, indicator, paneId, i + 1)

\* The instances override(indicator, paneId) matches.
Matched(indicator, paneId) ==
  {x \in Held(instances) :
     \E i \in 1..Len(instances) :
        /\ InScope(instances[i].k, paneId)
        /\ MapHas(instances[i].v, indicator.name)
        /\ MapGet(instances[i].v, indicator.name) = x}

Override(indicator, paneId) ==
  LET name == indicator.name
      sel == OverrideFrom(instances, indicator, paneId, 1)
      matched == Matched(indicator, paneId)
  IN /\ instances' =
          [i \in 1..Len(instances) |->
             IF InScope(instances[i].k, paneId) /\ MapHas(instances[i].v, name)
             THEN [k |-> instances[i].k,
                   v |-> MapSet(instances[i].v, name,
                                overrideInstance(MapGet(instances[i].v, name), indicator).inst)]
             ELSE instances[i]]
     /\ tasks' = tasks \o Launch(sel, "override")
     /\ last' = Call("override",
                     IF matched = {} THEN "miss"
                     ELSE IF \E x \in matched : overrideInstance(x, indicator).overrideSuccess
                     THEN "changed" ELSE "same",
                     Fields(indicator),
                     FALSE,
                     IF Len(sel) = 0 THEN "empty" ELSE "pending")

\* ------------------------------------------------------------- settlement
\* Promise.all(tasks) / `return await`: the call's promise settles once every
\* recomputation of the call has settled, with the flags in launch order.
CallTasks(ts, call) == SelectSeq(ts, LAMBDA t : t.call = call)

\* Mutant: the call's promise also settles at the first failure (fail-fast).
PromiseAllFailFast(ts, call) ==
  \/ \A i \in 1..Len(ts) : ts[i].call = call => ts[i].status # "pending"
  \/ \E i \in 1..Len(ts) : ts[i].call = call /\ ts[i].status = "fail"

PromiseAllSettled(ts, call) ==
  \A i \in 1..Len(ts) : ts[i].call = call => ts[i].status # "pending"

\* Mutant: every flag of the list is true, whatever the recomputation reported.
PromiseAllFulfilled(ts, call) ==
  [i \in 1..Len(CallTasks(ts, call)) |-> TRUE]

PromiseAll(ts, call) ==
  [i \in 1..Len(CallTasks(ts, call)) |-> CallTasks(ts, call)[i].status = "ok"]

\* A recomputation in flight settles: with success it writes the result it
\* computed; with failure the instance keeps its previous result.  When it is
\* the last of its call to settle, the call returns to its caller.
Settle(i, ok) ==
  LET t == tasks[i]
      ts == [tasks EXCEPT ![i].status = IF ok THEN "ok" ELSE "fail"]
  IN /\ t.status = "pending"
     /\ instances' = IF ok THEN WriteResult(instances, t.inst, t.result) ELSE instances
     /\ IF PromiseAllSettled(ts, t.call)
        THEN /\ tasks' = SelectSeq(ts, LAMBDA u : u.call # t.call)
             /\ last' = Return(t.op, PromiseAll(ts, t.call))
        ELSE /\ tasks' = ts
             /\ UNCHANGED last

\* ------------------------------------------------------------- specification
\* The indicator arguments callers pass: a name alone, or with a patch.
Indicators(names, patches) ==
  {[name |-> n] : n \in names} \cup {[name |-> n] @@ f : n \in names, f \in patches}

\* The calls of one step, with the panes, names, patches and precisions drawn
\* from the given sets, at most maxTasks recomputations in flight, and the
\* success of a settling calc drawn from outcomes.
NextOver(panes, names, patches, precisions, maxTasks, outcomes) ==
  \/ \E p \in panes, ind \in Indicators(names, patches), s \in BOOLEAN :
       AddInstance(p, ind, s) /\ Len(tasks') <= maxTasks
  \/ \E p \in panes, n \in names \cup {Undefined} : RemoveInstance(p, n)
  \/ \E n \in names \cup {Undefined}, p \in panes \cup {Undefined} :
       CalcInstance(n, p) /\ Len(tasks') <= maxTasks
  \/ \E pr \in precisions : SetSeriesPrecision(pr)
  \/ \E ind \in Indicators(names, patches), p \in panes \cup {Undefined} :
       Override(ind, p) /\ Len(tasks') <= maxTasks
  \/ \E i \in 1..Len(tasks), ok \in outcomes : Settle(i, ok)

\* The table's life cycle: two panes, every name, one recomputation in flight
\* at a time, patches that carry the default calcParams.
PatchFields == { [calcParams |-> <<5>>] }

PrecisionInputs == {[price |-> 2, volume |-> 0]}

Next == NextOver(Panes, Names, PatchFields, PrecisionInputs, MaxTasks, BOOLEAN)

Spec == Init /\ [][Next]_vars

\* Overlapping recomputations: one pane, one template, several recomputations
\* in flight, patches that change shortName or calcParams.
CalcPanes == {"pane1"}

CalcNames == {"MA"}

CalcPatchFields == { [shortName |-> "S1"], [calcParams |-> <<10>>] }

CalcPrecisionInputs == {[price |-> 4, volume |-> 4]}

NextCalc ==
  NextOver(CalcPanes, CalcNames, CalcPatchFields, CalcPrecisionInputs, MaxCalcTasks, BOOLEAN)

SpecCalc == Init /\ [][NextCalc]_vars

\* The same, with every calc succeeding.
NextCalcOk ==
  NextOver(CalcPanes, CalcNames, CalcPatchFields, CalcPrecisionInputs, MaxCalcTasks, {TRUE})

SpecCalcOk == Init /\ [][NextCalcOk]_vars

\* Overrides across panes: two panes, one template, adds that carry no patch,
\* overrides that change shortName or calcParams.
NextPanes ==
  \/ \E p \in Panes, ind \in Indicators(CalcNames, {}), s \in BOOLEAN :
       AddInstance(p, ind, s) /\ Len(tasks') <= MaxCalcTasks
  \/ \E ind \in Indicators(CalcNames, CalcPatchFields), p \in Panes \cup {Undefined} :
       Override(ind, p) /\ Len(tasks') <= MaxCalcTasks
  \/ \E i \in 1..Len(tasks), ok \in BOOLEAN : Settle(i, ok)

SpecPanes == Init /\ [][NextPanes]_vars

\* The override engine: one pane, one template, one recomputation in flight,
\* patches that carry minValue and maxValue, maxValue alone, calc alone, or
\* shortName alone.
OverridePatchFields ==
  { [minValue |-> <<1>>, maxValue |-> <<9>>],
    [maxValue |-> <<9>>],
    [calc |-> "calc1"],
    [shortName |-> "S1"] }

NextOverride ==
  NextOver(CalcPanes, CalcNames, OverridePatchFields, CalcPrecisionInputs, MaxTasks, BOOLEAN)

SpecOverride == Init /\ [][NextOverride]_vars

\* Precision propagation: two panes, a PRICE and a VOLUME template, patches
\* that reclassify an instance as NORMAL, every calc succeeding.
PrecisionNames == {"MA", "VOL"}

PrecisionPatchFields == { [series |-> "normal"] }

NextPrecision ==
  NextOver(Panes, PrecisionNames, PrecisionPatchFields, PrecisionInputs, MaxTasks, {TRUE})

SpecPrecision == Init /\ [][NextPrecision]_vars

\* Batches: two panes, two templates, adds that carry no patch, calcInstance
\* in every form, overrides that change calcParams, two recomputations in
\* flight, a calc that succeeds or fails.
BatchPatchFields == { [calcParams |-> <<10>>] }

NextBatch ==
  \/ \E p \in Panes, ind \in Indicators(PrecisionNames, {}), s \in BOOLEAN :
       AddInstance(p, ind, s) /\ Len(tasks') <= MaxCalcTasks
  \/ \E n \in PrecisionNames \cup {Undefined}, p \in Panes \cup {Undefined} :
       CalcInstance(n, p) /\ Len(tasks') <= MaxCalcTasks
  \/ \E n \in PrecisionNames, f \in BatchPatchFields, p \in Panes \cup {Undefined} :
       Override([name |-> n] @@ f, p) /\ Len(tasks') <= MaxCalcTasks
  \/ \E i \in 1..Len(tasks), ok \in BOOLEAN : Settle(i, ok)

SpecBatch == Init /\ [][NextBatch]_vars

\* ------------------------------------------------------------- claims
\* Every indicator argument and optional argument of the specifications above.
AnyIndicator == Indicators(Names, PatchFields \cup CalcPatchFields)

AnyName == Names \cup {Undefined}

AnyPane == Panes \cup {Undefined}

\* No recomputation of the instance is in flight.
Quiet(x) == \A i \in 1..Len(tasks) : tasks[i].inst = x.id => tasks[i].status # "pending"

\* C1: with every calc succeeding, an instance with no recomputation in flight
\* holds the result computed from its current calcParams, in every
\* interleaving of calls and settlements.
C1_ResultConsistent ==
  \A x \in Held(instances) :
    Quiet(x) => x.result = Calc(x.calc, x.calcParams, getDataList)

\* C2: addInstance(P, N1, true) followed by addInstance(P, N2, true), N1 and N2
\* distinct registered names, leaves P holding both.  (The state before the
\* second call: the last call was a stacking add that inserted, and the table
\* holds that one instance, in P.)
C2_StackAccumulation ==
  [][\A p \in Panes, ind \in AnyIndicator :
       ( /\ last'.op = "addInstance" /\ last'.fields = Fields(ind)
         /\ ind.name \in templates
         /\ last.op = "addInstance" /\ last.out = "pending" /\ last.isStack
         /\ Cardinality(Held(instances)) = 1
         /\ PaneNames(instances, p) # {}
         /\ ind.name \notin PaneNames(instances, p)
         /\ AddInstance(p, ind, TRUE) )
       => (PaneNames(instances, p) \cup {ind.name}) \subseteq PaneNames(instances', p)]_vars

\* C3: addInstance(P, N2, false) on a pane that holds some N1 and not the
\* registered name N2 leaves P holding exactly N2.
C3_NonStackExclusive ==
  [][\A p \in Panes, ind \in AnyIndicator :
       ( /\ last'.op = "addInstance" /\ last'.fields = Fields(ind)
         /\ ind.name \in templates
         /\ PaneNames(instances, p) # {}
         /\ ind.name \notin PaneNames(instances, p)
         /\ AddInstance(p, ind, FALSE) )
       => PaneNames(instances', p) = {ind.name}]_vars

\* C4: addInstance of a name the pane already holds returns false and changes
\* neither the table (no instance touched, cleared or constructed) nor the
\* recomputations in flight, whatever isStack and the patch are.
C4_DuplicateNoOp ==
  [][\A p \in Panes, ind \in AnyIndicator, s \in BOOLEAN :
       ( /\ last'.op = "addInstance" /\ last'.fields = Fields(ind)
         /\ ind.name \in PaneNames(instances, p)
         /\ AddInstance(p, ind, s) )
       => /\ last'.out = "false"
          /\ instances' = instances
          /\ tasks' = tasks]_vars

\* A duplicate add, with a patch, was refused on a pane whose instance holds
\* a result.
C4_Witness ==
  /\ last.op = "addInstance" /\ last.pre = "has" /\ last.out = "false"
  /\ last.fields # {}
  /\ \E x \in Held(instances) : x.result # << >>

\* C7: hasInstances(P) is true iff pane P holds at least one instance: the
\* table has no pane entry with an empty mapping.
C7_NoEmptyPane ==
  \A p \in Panes : hasInstances(p) <=> PaneNames(instances, p) # {}

\* The instance with identity id, as the table holds it.
ById(tbl, id) == CHOOSE x \in Held(tbl) : x.id = id

\* The instances override(ind, p) must recompute: the matched ones whose
\* calcParams the patch carries and changes.
MustRecompute(ind, p) ==
  {x \in Matched(ind, p) : Has(ind, "calcParams") /\ x.calcParams # ind.calcParams}

\* C5: override launches a recomputation for a matched instance iff the patch
\* carries calcParams and changes them: exactly one for each such instance,
\* none for any other, and no result changes in the call.
C5_CalcParamsIsolation ==
  [][\A ind \in AnyIndicator, p \in AnyPane :
       ( /\ last'.op = "override"
         /\ Override(ind, p) )
       => /\ Len(tasks') = Len(tasks) + Cardinality(MustRecompute(ind, p))
          /\ SubSeq(tasks', 1, Len(tasks)) = tasks
          /\ {tasks'[i].inst : i \in (Len(tasks) + 1)..Len(tasks')}
               = {x.id : x \in MustRecompute(ind, p)}
          /\ \A i \in (Len(tasks) + 1)..Len(tasks') : tasks'[i].status = "pending"
          /\ \A x \in Held(instances) : ById(instances', x.id).result = x.result]_vars

\* An override whose patch carries shortName alone changed the instances of
\* both panes and launched nothing, one of them being an instance that an
\* earlier calcParams override had recomputed.
C5_Witness ==
  /\ last.op = "override" /\ last.fields = {"shortName"}
  /\ last.pre = "changed" /\ last.out = "empty"
  /\ Cardinality(Held(instances)) = 2
  /\ \A x \in Held(instances) : x.shortName = "S1"
  /\ \E x \in Held(instances) :
       /\ x.calcParams = <<10>>
       /\ x.result = Calc(x.calc, <<10>>, getDataList)

\* C6: addInstance of a registered name the pane does not hold inserts it and
\* awaits its initial recomputation, whose success flag the call returns.
C6_AddResult ==
  [][/\ \A p \in Panes, ind \in AnyIndicator, s \in BOOLEAN :
          ( /\ last'.op = "addInstance" /\ last'.fields = Fields(ind)
            /\ ind.name \in templates
            /\ ind.name \notin PaneNames(instances, p)
            /\ AddInstance(p, ind, s) )
          => /\ ind.name \in PaneNames(instances', p)
             /\ last'.out = "pending"
     /\ \A i \in 1..Len(tasks), ok \in BOOLEAN :
          ( /\ tasks[i].op = "addInstance"
            /\ Settle(i, ok) )
          => last' = Return("addInstance", <<ok>>)]_vars

\* The panes other than p are as they were.
OthersUnchanged(p) ==
  \A q \in Panes \ {p} :
    /\ MapHas(instances', q) <=> MapHas(instances, q)
    /\ MapHas(instances, q) => MapGet(instances', q) = MapGet(instances, q)

\* C8: a removeInstance that removes the last instance of pane P, by name or
\* by clearing, deletes the pane entry (hasInstances(P) is false afterward)
\* and leaves every other pane unchanged.
C8_PaneCleanup ==
  [][\A p \in Panes, n \in AnyName :
       ( /\ last'.op = "removeInstance"
         /\ PaneNames(instances, p) # {}
         /\ n = Undefined \/ PaneNames(instances, p) = {n}
         /\ RemoveInstance(p, n) )
       => /\ ~MapHas(instances', p)
          /\ OthersUnchanged(p)]_vars

\* A remove by name took the only instance of its pane and reported true,
\* the other pane still holding its instance.
C8_Witness ==
  /\ last.op = "removeInstance" /\ last.fields = {"name"}
  /\ last.pre = "has" /\ last.out = "true"
  /\ Len(instances) = 1
  /\ Held(instances) # {}

\* C9: addInstance of a name with no registered factory fails with an error
\* at its caller, launches nothing, leaves the name in no pane and the
\* instances the table held untouched.
C9_UnknownTemplate ==
  [][\A p \in Panes, ind \in AnyIndicator, s \in BOOLEAN :
       ( /\ last'.op = "addInstance" /\ last'.fields = Fields(ind)
         /\ ind.name \notin templates
         /\ AddInstance(p, ind, s) )
       => /\ last'.out = "throw"
          /\ tasks' = tasks
          /\ Held(instances') = Held(instances)
          /\ \A q \in Panes : ind.name \notin PaneNames(instances', q)]_vars

\* C10: removeInstance(P, N) returns true iff P held N; removeInstance(P)
\* returns true iff P existed and held an instance; a call that returns false
\* leaves the table as it was.
C10_RemoveReport ==
  [][\A p \in Panes, n \in AnyName :
       ( /\ last'.op = "removeInstance"
         /\ RemoveInstance(p, n) )
       => /\ last'.out = "true" <=>
               IF n # Undefined THEN n \in PaneNames(instances, p)
               ELSE PaneNames(instances, p) # {}
          /\ last'.out = "false" => instances' = instances]_vars

\* The indicator arguments of SpecOverride.
OverrideIndicators == Indicators(CalcNames, OverridePatchFields)

\* C11: applying the same patch a second time, right after an override applied
\* it, reports changed=false and leaves the instance as the first application
\* left it, for every patch (also one that carries both minValue and maxValue).
C11_OverrideIdempotent ==
  [][\A ind \in OverrideIndicators, p \in CalcPanes \cup {Undefined} :
       ( /\ last'.op = "override" /\ last'.fields = Fields(ind)
         /\ Override(ind, p) )
       => \A x \in Matched(ind, p) :
            LET first == ById(instances', x.id)
                second == overrideInstance(first, ind)
            IN /\ ~second.overrideSuccess
               /\ second.inst = first]_vars

\* The fields of an instance a patch can set through a setter.
SettableFields ==
  {"shortName", "series", "calcParams", "precision", "plots", "minValue", "maxValue",
   "shouldOhlc", "shouldFormatBigNumber", "extendData"}

\* C15: after an override, every settable field the patch carries holds the
\* patch's value on every matched instance, and every settable field the
\* patch does not carry is unchanged (a patch of maxValue alone sets maxValue
\* and leaves minValue).
C15_FieldToOwnAttribute ==
  [][\A ind \in OverrideIndicators, p \in CalcPanes \cup {Undefined} :
       ( /\ last'.op = "override" /\ last'.fields = Fields(ind)
         /\ Override(ind, p) )
       => \A x \in Matched(ind, p), f \in SettableFields :
            ById(instances', x.id)[f] = IF Has(ind, f) THEN ind[f] ELSE x[f]]_vars

\* C18: an override whose patch carries calc alone replaces the capability of
\* every matched instance, reports (changed=false, calcParamsChanged=false),
\* launches no recomputation and changes nothing else, the result included.
C18_CalcSwapSilent ==
  [][\A ind \in OverrideIndicators, p \in CalcPanes \cup {Undefined} :
       ( /\ last'.op = "override" /\ last'.fields = {"calc"}
         /\ Fields(ind) = {"calc"}
         /\ Override(ind, p) )
       => /\ tasks' = tasks
          /\ last'.pre \in {"miss", "same"}
          /\ last'.out = "empty"
          /\ \A x \in Matched(ind, p) :
               /\ ~overrideInstance(x, ind).overrideSuccess
               /\ ~overrideInstance(x, ind).calcParamsSuccess
               /\ ById(instances', x.id) = [x EXCEPT !.calc = ind.calc]]_vars

\* A calc-only override was applied to an instance that holds the result its
\* previous capability produced, and nothing is in flight.
C18_Witness ==
  /\ last.op = "override" /\ last.fields = {"calc"}
  /\ last.pre = "same" /\ last.out = "empty"
  /\ tasks = << >>
  /\ \E x \in Held(instances) :
       /\ x.calc = "calc1"
       /\ x.result = Calc("calc0", x.calcParams, getDataList)

\* The precision an instance holds after setSeriesPrecision(pr).
Targeted(x, pr) ==
  IF x.series = "price" THEN pr.price
  ELSE IF x.series = "volume" THEN pr.volume
  ELSE x.precision

\* C14: setSeriesPrecision(pr) sets the precision of every PRICE instance to
\* pr.price and of every VOLUME instance to pr.volume, in every pane; it
\* changes no other field of any instance, no pane entry and no instance key,
\* and launches no recomputation.
C14_PrecisionTargeting ==
  [][\A pr \in PrecisionInputs :
       ( /\ last'.op = "setSeriesPrecision"
         /\ SetSeriesPrecision(pr) )
       => /\ tasks' = tasks
          /\ Len(instances') = Len(instances)
          /\ \A i \in 1..Len(instances) :
               /\ instances'[i].k = instances[i].k
               /\ Len(instances'[i].v) = Len(instances[i].v)
               /\ \A j \in 1..Len(instances[i].v) :
                    /\ instances'[i].v[j].k = instances[i].v[j].k
                    /\ instances'[i].v[j].v =
                         [instances[i].v[j].v EXCEPT
                            !.precision = Targeted(instances[i].v[j].v, pr)]]_vars

\* Right after a setSeriesPrecision, one pane holds a VOLUME instance with the
\* volume precision and its computed result, the other a NORMAL instance with
\* the precision of its template.
C14_Witness ==
  /\ last.op = "setSeriesPrecision"
  /\ \E x \in Held(instances) :
       x.series = "volume" /\ x.precision = 0 /\ x.result # << >>
  /\ \E y \in Held(instances) :
       y.series = "normal" /\ y.precision = 4

\* The instances calcInstance(n, p) is to recompute: the one keyed n in pane
\* p, the ones keyed n in any pane, or all of them.
Expected(n, p) ==
  {x \in Held(instances) :
     \E i \in 1..Len(instances) :
        /\ p = Undefined \/ instances[i].k = p
        /\ \E j \in 1..Len(instances[i].v) :
             /\ instances[i].v[j].v = x
             /\ n = Undefined \/ instances[i].v[j].k = n}

\* The positions in tasks of the recomputations launched with tasks[i].
Batch(i) == {j \in 1..Len(tasks) : tasks[j].call = tasks[i].call}

\* The number of recomputations of tasks[i]'s call launched before tasks[j].
Slot(i, j) == Cardinality({k \in Batch(i) : k <= j})

\* C12: calcInstance(name, paneId), calcInstance(name) and calcInstance()
\* launch one recomputation for each instance they select and for no other
\* (none, with an empty list returned, when nothing is selected); when the
\* call returns, its list has one flag per launched recomputation, the flag of
\* the k-th launched in slot k, in whatever order they settled.
C12_SelectionAndOrder ==
  [][/\ \A n \in PrecisionNames \cup {Undefined}, p \in AnyPane :
          ( /\ last'.op = "calcInstance"
            /\ n # Undefined \/ p = Undefined
            /\ CalcInstance(n, p) )
          => /\ SubSeq(tasks', 1, Len(tasks)) = tasks
             /\ Len(tasks') = Len(tasks) + Cardinality(Expected(n, p))
             /\ {tasks'[i].inst : i \in (Len(tasks) + 1)..Len(tasks')}
                  = {x.id : x \in Expected(n, p)}
             /\ \A i \in (Len(tasks) + 1)..Len(tasks') : tasks'[i].status = "pending"
             /\ Expected(n, p) = {} <=> last'.out = "empty"
     /\ \A i \in 1..Len(tasks), ok \in BOOLEAN :
          ( /\ tasks[i].op = "calcInstance"
            /\ \A j \in Batch(i) \ {i} : tasks[j].status # "pending"
            /\ Settle(i, ok) )
          => /\ last'.ev = "return" /\ last'.op = "calcInstance"
             /\ Len(last'.flags) = Cardinality(Batch(i))
             /\ \A j \in Batch(i) :
                  last'.flags[Slot(i, j)] = IF j = i THEN ok ELSE tasks[j].status = "ok"]_vars

\* A calcInstance over two instances returned: the recomputation of the first
\* selected failed, that of the second succeeded.
C12_Witness ==
  /\ last.ev = "return" /\ last.op = "calcInstance"
  /\ last.flags = <<FALSE, TRUE>>
  /\ Cardinality(Held(instances)) = 2

HeldIds(tbl) == {x.id : x \in Held(tbl)}

\* C16: a recomputation that settles with success writes its own output on
\* its instance, whichever recomputation of that instance was launched first
\* and whatever another one wrote before; a settlement leaves the other
\* recomputations in flight of the same instance as they are.
C16_LastSettleWins ==
  [][\A i \in 1..Len(tasks) :
       ( /\ tasks[i].inst \in HeldIds(instances)
         /\ Settle(i, TRUE) )
       => /\ ById(instances', tasks[i].inst).result = tasks[i].result
          /\ \A j \in 1..Len(tasks) :
               (j # i /\ tasks[j].inst = tasks[i].inst /\ tasks[j].status = "pending")
               => \E k \in 1..Len(tasks') : tasks'[k] = tasks[j]]_vars

\* The initial recomputation of an add settled after the recomputation of a
\* later override of calcParams: with nothing in flight the instance holds the
\* calcParams of the override and the output of the initial recomputation.
C16_Witness ==
  /\ last = Return("addInstance", <<TRUE>>)
  /\ tasks = << >>
  /\ \E x \in Held(instances) :
       /\ x.calcParams = <<10>>
       /\ x.result = Calc(x.calc, <<5>>, getDataList)

\* C17: a settlement keeps every pane entry and every instance key, and
\* changes at most the result of the instance it was launched for; when the
\* table no longer holds that instance, the table is unchanged.
C17_SettleKeepsStructure ==
  [][\A i \in 1..Len(tasks), ok \in BOOLEAN :
       Settle(i, ok)
       => /\ Len(instances') = Len(instances)
          /\ \A a \in 1..Len(instances) :
               /\ instances'[a].k = instances[a].k
               /\ Len(instances'[a].v) = Len(instances[a].v)
               /\ \A b \in 1..Len(instances[a].v) :
                    /\ instances'[a].v[b].k = instances[a].v[b].k
                    /\ \/ instances'[a].v[b].v = instances[a].v[b].v
                       \/ /\ instances[a].v[b].v.id = tasks[i].inst
                          /\ instances'[a].v[b].v =
                               [instances[a].v[b].v EXCEPT !.result = tasks[i].result]
          /\ tasks[i].inst \notin HeldIds(instances) => instances' = instances]_vars

\* The initial recomputation of an added instance settled with success after
\* the instance was removed: the call returned true, and the table holds only
\* another instance, whose result is still empty.
C17_Witness ==
  /\ last = Return("addInstance", <<TRUE>>)
  /\ tasks = << >>
  /\ Cardinality(Held(instances)) = 1
  /\ \A x \in Held(instances) : x.result = << >>

\* C19: after every step each pane entry holds at most one instance, and an
\* addInstance on a pane that has an entry returns false and changes neither
\* the table nor the recomputations in flight, whatever the name and isStack.
C19_OnePerPane ==
  [][/\ \A i \in 1..Len(instances') : Len(instances'[i].v) <= 1
     /\ \A p \in Panes, ind \in AnyIndicator, s \in BOOLEAN :
          ( /\ last'.op = "addInstance" /\ last'.fields = Fields(ind)
            /\ MapHas(instances, p)
            /\ AddInstance(p, ind, s) )
          => /\ last'.out = "false"
             /\ instances' = instances
             /\ tasks' = tasks]_vars

\* A stacking add of another name was refused on a pane that holds one
\* instance.
C19_Witness ==
  /\ last.op = "addInstance" /\ last.pre = "other" /\ last.isStack
  /\ last.out = "false"
  /\ \E i \in 1..Len(instances) : Len(instances[i].v) = 1

\* No recomputation launched by addInstance for x is in flight.
InitialDone(x) ==
  \A i \in 1..Len(tasks) : tasks[i].inst = x.id => tasks[i].op # "addInstance"

\* C20: when the initial recomputation of an addInstance settles with failure
\* the call returns false and the table is unchanged (the instance stays);
\* an addInstance of a name its pane holds returns false and launches
\* nothing; and an instance whose initial recomputation is over with no result
\* gets one only at the successful settlement of a recomputation launched by
\* override or calcInstance.
C20_FailedAddStays ==
  [][/\ \A i \in 1..Len(tasks) :
          ( /\ tasks[i].op = "addInstance"
            /\ Settle(i, FALSE) )
          => /\ last' = Return("addInstance", <<FALSE>>)
             /\ instances' = instances
     /\ \A p \in Panes, n \in PrecisionNames, s \in BOOLEAN :
          ( /\ last'.op = "addInstance"
            /\ n \in PaneNames(instances, p)
            /\ AddInstance(p, [name |-> n], s) )
          => /\ last'.out = "false"
             /\ instances' = instances
             /\ tasks' = tasks
     /\ \A x \in Held(instances) :
          ( /\ x.result = << >>
            /\ InitialDone(x)
            /\ x.id \in HeldIds(instances')
            /\ ById(instances', x.id).result # << >> )
          => \E i \in 1..Len(tasks) :
               /\ tasks[i].inst = x.id
               /\ tasks[i].op \in {"override", "calcInstance"}
               /\ Settle(i, TRUE)]_vars

\* An addInstance of the name was refused on a pane whose instance has no
\* result, its initial recomputation having failed, with nothing in flight.
C20_Witness ==
  /\ last.op = "addInstance" /\ last.pre = "has" /\ last.out = "false"
  /\ tasks = << >>
  /\ Cardinality(Held(instances)) = 1
  /\ \A x \in Held(instances) : x.result = << >>

====
